---- MODULE Spec2Model ----
(***************************************************************************)
(* State-machine model of skdata's experiment DSL evaluator                *)
(* (skdata/dslang.py, class Visitor) and of the learning-algorithm glue    *)
(* (skdata/base.py, classes SemanticsDelegator and SklearnClassifier).     *)
(*                                                                         *)
(* Node objects live in a fixed arena and are referred to by their index,  *)
(* which stands for the object's identity.  Floating point results of      *)
(* numpy.mean are modelled as exact fractions in lowest terms.             *)
(***************************************************************************)
EXTENDS Integers, Sequences, FiniteSets, TLC

VARIABLES memo, runs, trace, call, ncalls,
          results_best_model, results_loss, models, history

vars == <<memo, runs, trace, call, ncalls,
          results_best_model, results_loss, models, history>>

visitorVars == <<memo, runs, trace, call, ncalls>>
algoVars == <<results_best_model, results_loss, models, history>>

(* Number of top-level Visitor.evaluate calls explored. *)
MaxCalls == 2

(* Number of SklearnClassifier method calls explored. *)
MaxAlgoCalls == 2

----------------------------------------------------------------------------
(* Values an evaluation can produce *)

Num(a, b) == [k |-> "num", n |-> a, d |-> b]
NaN == [k |-> "nan", n |-> 0, d |-> 1]
Ref(i) == [k |-> "node", n |-> i, d |-> 1]
NoVal == [k |-> "none", n |-> 0, d |-> 1]

RECURSIVE Gcd(_, _)
Gcd(a, b) == IF b = 0 THEN a ELSE Gcd(b, a % b)

(* the fraction a/b in lowest terms *)
Frac(a, b) == LET g == Gcd(a, b) IN IF g = 0 THEN Num(0, 1) ELSE Num(a \div g, b \div g)

----------------------------------------------------------------------------
(* The node classes and the arena of node objects *)

mkNode(c, ks, v) == [cls |-> c, kids |-> ks, val |-> v]

Task(i) == mkNode("Task", <<>>, i)
Split(train, test) == mkNode("Split", <<train, test>>, 0)
Average(values) == mkNode("Average", values, 0)
Score(model, task) == mkNode("Score", <<model, task>>, 0)
BestModel(split) == mkNode("BestModel", <<split>>, 0)
MergeTasks(tasks) == mkNode("MergeTasks", tasks, 0)
RetrainClassifier(model, task) == mkNode("RetrainClassifier", <<model, task>>, 0)
(* a leaf of a test evaluator that evaluates to the scalar v *)
Leaf(v) == mkNode("Leaf", <<>>, v)
(* an object of a class that is not a DSL node class *)
Other == mkNode("Other", <<>>, 0)

Nodes ==
  <<Task(1),                       \*  1
    Task(2),                       \*  2
    Split(1, 2),                   \*  3
    Leaf(1),                       \*  4
    Leaf(3),                       \*  5
    Leaf(8),                       \*  6
    Leaf(2),                       \*  7
    Leaf(4),                       \*  8
    Leaf(6),                       \*  9
    Average(<<4, 5>>),             \* 10
    Average(<<10, 6>>),            \* 11
    Average(<<7, 8, 9>>),          \* 12
    Average(<<4, 4>>),             \* 13
    Average(<<10, 13>>),           \* 14
    Score(1, 2),                   \* 15
    BestModel(3),                  \* 16
    MergeTasks(<<1, 2>>),          \* 17
    RetrainClassifier(1, 2),       \* 18
    Other,                         \* 19
    Average(<<>>),                 \* 20
    Average(<<1, 2>>),             \* 21
    Average(<<4, 15, 5>>),         \* 22
    Average(<<5, 19, 6>>),         \* 23
    Score(19, 1),                  \* 24
    Average(<<4, 5, 5>>),          \* 25
    Average(<<17>>),               \* 26
    Score(16, 1),                  \* 27
    Average(<<20, 4>>),            \* 28
    BestModel(22),                 \* 29
    Average(<<3, 18>>)             \* 30
  >>

NodeIds == DOMAIN Nodes

(* The node variants of the DSL *)
ClosedSet == {"Average", "Score", "BestModel", "MergeTasks",
              "RetrainClassifier", "Task", "Split"}

----------------------------------------------------------------------------
(* The memo dictionary.  A key is either a node object (hashed by          *)
(* identity) or an integer such as the one id(node) returns.               *)

ObjKey(n) == <<"obj", n>>
IdKey(n) == <<"id", n>>
EmptyMemo == <<>>
None == <<>>
Some(m) == <<m>>

Event(e, node, v, x, depth) == [ev |-> e, n |-> node, val |-> v, err |-> x, d |-> depth]

Return(st, v) == [st |-> st, ok |-> TRUE, val |-> v, err |-> "", at |-> 0]
Raise(st, x, node, depth) ==
  [st |-> [st EXCEPT !.trace = Append(@, Event("raise", node, NoVal, x, depth))],
   ok |-> FALSE, val |-> NoVal, err |-> x, at |-> node]

(* The methods class Visitor defines, plus the leaf hook of a test evaluator *)
VisitorMethods == {"on_Average", "on_Score", "on_BestModel", "on_Task", "on_Split", "on_Leaf"}

Missing == "<missing>"

(* variant: an unknown class falls back to the identity handler *)
getattr_Visitor_fallback(fname) == IF fname \in VisitorMethods THEN fname ELSE "on_Task"

getattr_Visitor(fname) == IF fname \in VisitorMethods THEN fname ELSE Missing

(* variant: the node is stored in place of the handler's result *)
memo_setitem_node(m, node, rval) == (ObjKey(node) :> Ref(node)) @@ m

memo_setitem(m, node, rval) == (ObjKey(node) :> rval) @@ m

(* return memo[node]: the value evaluate hands back is logged as "out" *)
memo_getitem(st, node, depth) ==
  IF ObjKey(node) \in DOMAIN st.memo[1]
  THEN LET v == st.memo[1][ObjKey(node)]
       IN Return([st EXCEPT !.trace = Append(@, Event("out", node, v, "", depth))], v)
  ELSE Raise(st, "KeyError", node, depth)

(* numpy.mean of a list of results *)
RECURSIVE SumNum(_), ProdDen(_)
ProdDen(vals) == IF vals = <<>> THEN 1 ELSE Head(vals).d * ProdDen(Tail(vals))
SumNum(vals) ==
  IF vals = <<>> THEN 0
  ELSE Head(vals).n * ProdDen(Tail(vals)) + Head(vals).d * SumNum(Tail(vals))

(* variant: the sum is not divided by the count *)
np_mean_sum(vals) ==
  IF \E i \in DOMAIN vals : vals[i].k = "node" THEN NoVal
  ELSE IF vals = <<>> \/ \E i \in DOMAIN vals : vals[i].k = "nan" THEN NaN
  ELSE Frac(SumNum(vals), ProdDen(vals))

np_mean(vals) ==
  IF \E i \in DOMAIN vals : vals[i].k = "node" THEN NoVal
  ELSE IF vals = <<>> \/ \E i \in DOMAIN vals : vals[i].k = "nan" THEN NaN
  ELSE Frac(SumNum(vals), ProdDen(vals) * Len(vals))

RECURSIVE evaluate(_, _, _)

(* [self.evaluate(value, memo) for value in node.values] *)
RECURSIVE evaluate_values(_, _, _, _)
evaluate_values(values, st, depth, acc) ==
  IF values = <<>> THEN [st |-> st, ok |-> TRUE, val |-> acc, err |-> "", at |-> 0]
  ELSE LET r == evaluate(Head(values), st, depth)
       IN IF r.ok THEN evaluate_values(Tail(values), r.st, depth, Append(acc, r.val))
          ELSE r

(* variant: a child that fails is left out of the mean *)
RECURSIVE evaluate_values_skipping(_, _, _, _)
evaluate_values_skipping(values, st, depth, acc) ==
  IF values = <<>> THEN [st |-> st, ok |-> TRUE, val |-> acc, err |-> "", at |-> 0]
  ELSE LET r == evaluate(Head(values), st, depth)
       IN IF r.ok THEN evaluate_values_skipping(Tail(values), r.st, depth, Append(acc, r.val))
          ELSE evaluate_values_skipping(Tail(values), r.st, depth, acc)

on_Average_skipping(node, st, depth) ==
  LET r == evaluate_values_skipping(Nodes[node].kids, st, depth + 1, <<>>)
      m == np_mean(r.val)
  IN IF m = NoVal THEN Raise(r.st, "TypeError", node, depth)
     ELSE Return(r.st, m)

on_Average(node, st, depth) ==
  LET r == evaluate_values(Nodes[node].kids, st, depth + 1, <<>>)
  IN IF ~r.ok THEN r
     ELSE LET m == np_mean(r.val)
          IN IF m = NoVal THEN Raise(r.st, "TypeError", node, depth)
             ELSE Return(r.st, m)

(* variant: the hook returns the evaluated task instead of raising *)
on_Score_returning(node, st, depth) ==
  LET model == evaluate(Nodes[node].kids[1], st, depth + 1)
  IN IF ~model.ok THEN model
     ELSE LET task == evaluate(Nodes[node].kids[2], model.st, depth + 1)
          IN IF ~task.ok THEN task
             ELSE Return(task.st, task.val)

on_Score(node, st, depth) ==
  LET model == evaluate(Nodes[node].kids[1], st, depth + 1)
  IN IF ~model.ok THEN model
     ELSE LET task == evaluate(Nodes[node].kids[2], model.st, depth + 1)
          IN IF ~task.ok THEN task
             ELSE Raise(task.st, "NotImplementedError", node, depth)

on_BestModel(node, st, depth) ==
  LET split == evaluate(Nodes[node].kids[1], st, depth + 1)
  IN IF ~split.ok THEN split
     ELSE Raise(split.st, "NotImplementedError", node, depth)

on_Task(node, st, depth) == Return(st, Ref(node))

(* variant: the split's train and test tasks are evaluated first *)
on_Split_descending(node, st, depth) ==
  LET train == evaluate(Nodes[node].kids[1], st, depth + 1)
  IN IF ~train.ok THEN train
     ELSE LET test == evaluate(Nodes[node].kids[2], train.st, depth + 1)
          IN IF ~test.ok THEN test
             ELSE Return(test.st, Ref(node))

on_Split(node, st, depth) == Return(st, Ref(node))

on_Leaf(node, st, depth) == Return(st, Num(Nodes[node].val, 1))

CallHandler(h, node, st, depth) ==
  CASE h = "on_Average" -> on_Average(node, st, depth)
    [] h = "on_Score" -> on_Score(node, st, depth)
    [] h = "on_BestModel" -> on_BestModel(node, st, depth)
    [] h = "on_Task" -> on_Task(node, st, depth)
    [] h = "on_Split" -> on_Split(node, st, depth)
    [] h = "on_Leaf" -> on_Leaf(node, st, depth)

evaluate(node, st, depth) ==
  LET memo0 == IF st.memo = None THEN EmptyMemo ELSE st.memo[1]
      s0 == [st EXCEPT !.memo = Some(memo0),
                       !.trace = Append(@, Event("visit", node, NoVal, "", depth))]
  IN IF IdKey(node) \notin DOMAIN memo0
     THEN LET fname == "on_" \o Nodes[node].cls
              h == getattr_Visitor(fname)
          IN IF h = Missing THEN Raise(s0, "AttributeError", node, depth)
             ELSE LET s1 == [s0 EXCEPT !.trace = Append(@, Event("call", node, NoVal, "", depth)),
                                       !.runs[node] = @ + 1]
                      r == CallHandler(h, node, s1, depth)
                  IN IF ~r.ok THEN r
                     ELSE LET s2 == [r.st EXCEPT
                                       !.memo = Some(memo_setitem(r.st.memo[1], node, r.val)),
                                       !.trace = Append(@, Event("ret", node, r.val, "", depth))]
                          IN memo_getitem(s2, node, depth)
     ELSE memo_getitem(s0, node, depth)

----------------------------------------------------------------------------
(* The driver: top-level calls of Visitor.evaluate, on the caller's memo   *)
(* or with memo=None                                                       *)

NoRuns == [n \in NodeIds |-> 0]
NoCall == [root |-> 0, fresh |-> FALSE, ok |-> TRUE, val |-> NoVal, err |-> "", at |-> 0]

Evaluate(root, fresh) ==
  /\ ncalls < MaxCalls
  /\ LET st0 == [memo |-> IF fresh THEN None ELSE Some(memo),
                 trace |-> <<>>,
                 runs |-> IF fresh THEN NoRuns ELSE runs]
         r == evaluate(root, st0, 0)
     IN /\ memo' = IF fresh THEN memo ELSE r.st.memo[1]
        /\ runs' = IF fresh THEN runs ELSE r.st.runs
        /\ trace' = r.st.trace
        /\ call' = [root |-> root, fresh |-> fresh, ok |-> r.ok,
                    val |-> r.val, err |-> r.err, at |-> r.at]
  /\ ncalls' = ncalls + 1
  /\ UNCHANGED algoVars

InitVisitor ==
  /\ memo = EmptyMemo
  /\ runs = NoRuns
  /\ trace = <<>>
  /\ call = NoCall
  /\ ncalls = 0

----------------------------------------------------------------------------
(* base.py: Task objects handed to a learning algorithm *)

mkTask(sem, nm) == [semantics |-> sem, name |-> nm]

TaskObjs ==
  {mkTask("vector_classification", "a"),
   mkTask("vector_classification", "b"),
   mkTask("indexed_vector_classification", "c"),
   mkTask("indexed_image_classification", "d"),
   mkTask("image_classification", "e")}

(* valid=None *)
NoTask == mkTask("", "None")
NoAttr == "<no attribute>"

(* The methods class SklearnClassifier defines for semantics tags *)
SklearnMethods ==
  {"best_model_vector_classification", "loss_vector_classification",
   "best_model_indexed_vector_classification", "best_model_indexed_image_classification",
   "loss_indexed_vector_classification", "loss_indexed_image_classification"}

AReturn(a, v, h) == [a |-> a, ok |-> TRUE, err |-> "", ret |-> v, handler |-> h]
ARaise(a, x, h) == [a |-> a, ok |-> FALSE, err |-> x, ret |-> NoVal, handler |-> h]

(* ext.fitOk: whether reading the task's data and model.fit complete *)
best_model_vector_classification(a, train, valid, ext) ==
  LET h == "best_model_vector_classification"
      model == Len(a.models) + 1
      a1 == [a EXCEPT !.models = Append(@, [trained_on |-> NoAttr])]
  IN IF ~ext.fitOk THEN ARaise(a1, "ExternalError", h)
     ELSE LET a2 == [a1 EXCEPT !.models[model].trained_on = train.name]
              a3 == [a2 EXCEPT !.results_best_model = Append(@,
                       [train_name |-> train.name,
                        valid_name |-> IF valid # NoTask THEN valid.name ELSE "None",
                        model |-> model])]
          IN AReturn(a3, Ref(model), h)

(* the same steps on train.all_vectors[train.idxs] *)
best_model_indexed_vector_classification(a, train, valid, ext) ==
  [best_model_vector_classification(a, train, valid, ext)
     EXCEPT !.handler = "best_model_indexed_vector_classification"]

(* the same steps on train.all_images[train.idxs] *)
best_model_indexed_image_classification(a, train, valid, ext) ==
  [best_model_vector_classification(a, train, valid, ext)
     EXCEPT !.handler = "best_model_indexed_image_classification"]

(* model = 0 is a model no best_model call returned; ext.predictOk: whether *)
(* model.predict completes; ext.wrong of ext.n predictions differ from y    *)
loss_vector_classification(a, model, task, ext) ==
  LET h == "loss_vector_classification"
  IN IF ~ext.predictOk THEN ARaise(a, "ExternalError", h)
     ELSE LET err_rate == Frac(ext.wrong, ext.n)
              trained_on == IF model = 0 THEN NoAttr ELSE a.models[model].trained_on
          IN IF trained_on = NoAttr THEN ARaise(a, "AttributeError", h)
             ELSE AReturn([a EXCEPT !.results_loss = Append(@,
                             [model_trained_on |-> trained_on,
                              predictions |-> ext.wrong,
                              err_rate |-> err_rate,
                              n |-> ext.n,
                              task_name |-> task.name])],
                          err_rate, h)

loss_indexed_vector_classification(a, model, task, ext) ==
  [loss_vector_classification(a, model, task, ext)
     EXCEPT !.handler = "loss_indexed_vector_classification"]

loss_indexed_image_classification(a, model, task, ext) ==
  [loss_vector_classification(a, model, task, ext)
     EXCEPT !.handler = "loss_indexed_image_classification"]

(* getattr(self, name)(x, y) on a SklearnClassifier *)
getattr_call(a, name, x, y, ext) ==
  CASE name \notin SklearnMethods -> ARaise(a, "AttributeError", "")
    [] name = "best_model_vector_classification" ->
         best_model_vector_classification(a, x, y, ext)
    [] name = "best_model_indexed_vector_classification" ->
         best_model_indexed_vector_classification(a, x, y, ext)
    [] name = "best_model_indexed_image_classification" ->
         best_model_indexed_image_classification(a, x, y, ext)
    [] name = "loss_vector_classification" ->
         loss_vector_classification(a, x, y, ext)
    [] name = "loss_indexed_vector_classification" ->
         loss_indexed_vector_classification(a, x, y, ext)
    [] name = "loss_indexed_image_classification" ->
         loss_indexed_image_classification(a, x, y, ext)

(* SemanticsDelegator; first a variant with no check of the semantics tags *)
best_model_unchecked(a, train, valid, ext) ==
  getattr_call(a, "best_model_" \o train.semantics, train, valid, ext)

best_model(a, train, valid, ext) ==
  IF valid # NoTask /\ train.semantics # valid.semantics
  THEN ARaise(a, "AssertionError", "")
  ELSE getattr_call(a, "best_model_" \o train.semantics, train, valid, ext)

loss(a, model, task, ext) ==
  getattr_call(a, "loss_" \o task.semantics, model, task, ext)

(* LearningAlgo; first a variant that drops the records of the forgotten task *)
forget_task_dropping(a, task_name) ==
  AReturn([a EXCEPT !.results_best_model = SelectSeq(@, LAMBDA r : r.train_name # task_name),
                    !.results_loss = SelectSeq(@, LAMBDA r : r.task_name # task_name)],
          NoVal, "")

forget_task(a, task_name) == AReturn(a, NoVal, "")

----------------------------------------------------------------------------
(* The protocol driver: calls on one SklearnClassifier *)

Exts == [fitOk : BOOLEAN, predictOk : {TRUE}, wrong : {0}, n : {2}]
           \cup [fitOk : {TRUE}, predictOk : BOOLEAN, wrong : 0..1, n : {2}]

algoState == [results_best_model |-> results_best_model,
              results_loss |-> results_loss,
              models |-> models]

Record(r, op, model, x, y) ==
  /\ results_best_model' = r.a.results_best_model
  /\ results_loss' = r.a.results_loss
  /\ models' = r.a.models
  /\ history' = Append(history, [op |-> op, model |-> model, x |-> x, y |-> y, ok |-> r.ok,
                                 err |-> r.err, ret |-> r.ret, handler |-> r.handler])
  /\ UNCHANGED visitorVars

BestModelCall(train, valid, ext) ==
  /\ Len(history) < MaxAlgoCalls
  /\ Record(best_model(algoState, train, valid, ext), "best_model", 0, train, valid)

LossCall(model, task, ext) ==
  /\ Len(history) < MaxAlgoCalls
  /\ model <= Len(models)
  /\ Record(loss(algoState, model, task, ext), "loss", model, task, NoTask)

ForgetTaskCall(task) ==
  /\ Len(history) < MaxAlgoCalls
  /\ Record(forget_task(algoState, task.name), "forget_task", 0, task, NoTask)

InitAlgo ==
  /\ results_best_model = <<>>
  /\ results_loss = <<>>
  /\ models = <<>>
  /\ history = <<>>

Init == InitVisitor /\ InitAlgo

Next == \E root \in NodeIds, fresh \in BOOLEAN : Evaluate(root, fresh)

Spec == Init /\ [][Next]_vars

NextAlgo ==
  \/ \E train \in TaskObjs, valid \in TaskObjs \cup {NoTask}, ext \in Exts :
       BestModelCall(train, valid, ext)
  \/ \E model \in 0..MaxAlgoCalls, task \in TaskObjs, ext \in Exts :
       LossCall(model, task, ext)
  \/ \E task \in TaskObjs : ForgetTaskCall(task)

SpecAlgo == Init /\ [][NextAlgo]_vars

----------------------------------------------------------------------------
(* Reading the trace of the last top-level call *)

IsLeafCls(c) == c \in {"Task", "Split"}
(* classes of the arena that are not DSL node variants and have no handler *)
IsForeign(n) == Nodes[n].cls \notin ClosedSet \cup {"Leaf"}

Events(e, n) == {i \in DOMAIN trace : trace[i].ev = e /\ trace[i].n = n}

(* the event that closes the visit opened at index i, if any *)
Closing(i) ==
  {j \in DOMAIN trace : j > i /\ trace[j].d = trace[i].d /\ trace[j].n = trace[i].n
                        /\ trace[j].ev \in {"out", "raise"}
                        /\ \A m \in (i+1)..(j-1) : trace[m].d > trace[i].d
                                                   \/ trace[m].ev \in {"call", "ret"}}

(* C1: for one memo instance, each node's handler runs at most once, in   *)
(* one call and across top-level calls that reuse the memo.               *)
C1_HandlerRunsAtMostOnce ==
  \A n \in NodeIds : runs[n] <= 1 /\ Cardinality(Events("call", n)) <= 1

(* C2: no node of the closed variant set, MergeTasks and RetrainClassifier *)
(* included, fails with the unhandled-node-variant error.                  *)
C2_ClosedSetIsDispatched ==
  \A i \in DOMAIN trace :
    (trace[i].ev = "raise" /\ trace[i].err = "AttributeError")
      => Nodes[trace[i].n].cls \notin ClosedSet

(* C3: visiting a node whose class is outside the closed set fails the     *)
(* call with the unhandled-variant error at that node; no handler runs or  *)
(* returns for it and the memo gets no entry for it.                       *)
C3_UnsupportedNodeType ==
  \A n \in NodeIds :
    IsForeign(n) =>
      /\ ObjKey(n) \notin DOMAIN memo /\ IdKey(n) \notin DOMAIN memo
      /\ Events("visit", n) # {} =>
           /\ ~call.ok /\ call.err = "AttributeError" /\ call.at = n
           /\ Events("call", n) = {} /\ Events("ret", n) = {} /\ Events("out", n) = {}

C3_Witness ==
  /\ call.root = 23 /\ ~call.fresh /\ ~call.ok
  /\ call.err = "AttributeError" /\ call.at = 19
  /\ ObjKey(5) \in DOMAIN memo

(* C4: a Score or BestModel node never returns and never gets a memo       *)
(* entry; when its children evaluated without error the call fails with    *)
(* NotImplementedError at that node, after the children's results.         *)
C4_UnimplementedHooks ==
  \A n \in NodeIds :
    Nodes[n].cls \in {"Score", "BestModel"} =>
      /\ ObjKey(n) \notin DOMAIN memo
      /\ Events("ret", n) = {} /\ Events("out", n) = {}
      /\ \A i \in Events("call", n) :
           /\ ~call.ok
           /\ (\A c \in 1..Len(Nodes[n].kids) :
                 \E j \in Events("out", Nodes[n].kids[c]) : j > i /\ trace[j].d = trace[i].d + 1)
                => /\ call.err = "NotImplementedError" /\ call.at = n
                   /\ trace[Len(trace)] = Event("raise", n, NoVal, "NotImplementedError", trace[i].d)

C4_Witness ==
  /\ call.root = 15 /\ ~call.fresh /\ ~call.ok
  /\ call.err = "NotImplementedError" /\ call.at = 15
  /\ ObjKey(1) \in DOMAIN memo /\ ObjKey(2) \in DOMAIN memo

(* C5: every evaluation of a Task or Split node hands back the node        *)
(* itself and visits no other node meanwhile, whatever the memo holds.     *)
C5_LeafIdentity ==
  \A i \in DOMAIN trace :
    (trace[i].ev = "visit" /\ IsLeafCls(Nodes[trace[i].n].cls)) =>
      \E j \in Closing(i) :
        /\ trace[j] = Event("out", trace[i].n, Ref(trace[i].n), "", trace[i].d)
        /\ \A m \in i..j : trace[m].n = trace[i].n
        /\ (trace[i].d = 0 => call.ok /\ call.val = Ref(call.root))

C5_Witness ==
  /\ call.root = 3 /\ ~call.fresh /\ call.ok /\ call.val = Ref(3)
  /\ ObjKey(10) \in DOMAIN memo /\ ObjKey(1) \notin DOMAIN memo

(* the "call" event matching the "ret" event at index j *)
Opening(j) ==
  LET S == {i \in Events("call", trace[j].n) : i < j /\ trace[i].d = trace[j].d}
  IN CHOOSE i \in S : \A k \in S : k <= i

Between(i, j, e) ==
  SelectSeq(SubSeq(trace, i + 1, j - 1), LAMBDA x : x.d = trace[i].d + 1 /\ x.ev = e)

NodesOf(evs) == [k \in 1..Len(evs) |-> evs[k].n]
ValsOf(evs) == [k \in 1..Len(evs) |-> evs[k].val]

RECURSIVE CommonDen(_, _)
CommonDen(vs, k) == IF k = 0 THEN 1 ELSE vs[k].d * CommonDen(vs, k - 1)

RECURSIVE ScaledTotal(_, _, _)
ScaledTotal(vs, k, D) ==
  IF k = 0 THEN 0 ELSE vs[k].n * (D \div vs[k].d) + ScaledTotal(vs, k - 1, D)

(* v = (vs[1] + ... + vs[n]) / n, by cross-multiplication *)
IsMean(v, vs) ==
  LET D == CommonDen(vs, Len(vs))
  IN /\ v.k = "num" /\ v.d > 0
     /\ v.n * D * Len(vs) = v.d * ScaledTotal(vs, Len(vs), D)

(* C6: an Average node with non-empty values evaluates its children once   *)
(* each in sequence order, on the memo of the call, and returns the sum of *)
(* their results divided by their count; nested Averages likewise, so      *)
(* Average([Average([1, 3]), 8]) is 5 and Average([2, 4, 6]) is 4.         *)
C6_AverageIsMean ==
  /\ \A j \in DOMAIN trace :
       (trace[j].ev = "ret" /\ Nodes[trace[j].n].cls = "Average"
          /\ Nodes[trace[j].n].kids # <<>>) =>
         LET i == Opening(j)
             kids == Nodes[trace[j].n].kids
             outs == Between(i, j, "out")
         IN /\ NodesOf(Between(i, j, "visit")) = kids
            /\ NodesOf(outs) = kids
            /\ IF \E k \in 1..Len(outs) : outs[k].val.k = "nan"
               THEN trace[j].val = NaN
               ELSE IsMean(trace[j].val, ValsOf(outs))
            /\ ~call.fresh => \A k \in 1..Len(kids) : ObjKey(kids[k]) \in DOMAIN memo
            /\ trace[j].n = 11 => trace[j].val = Num(5, 1)
            /\ trace[j].n = 12 => trace[j].val = Num(4, 1)
  /\ (call.ok /\ call.root # 0 /\ Nodes[call.root].cls = "Average")
       => call.val = trace[Len(trace) - 1].val /\ trace[Len(trace) - 1].ev = "ret"

C6_Witness ==
  /\ call.root = 11 /\ call.ok /\ call.val = Num(5, 1) /\ ~call.fresh
  /\ memo[ObjKey(10)] = Num(2, 1)

(* C8: a failure of any handler ends the top-level call with that very     *)
(* error: the raise is the last thing that happens, so no enclosing        *)
(* handler returns, substitutes a value or retries, and no later sibling   *)
(* is visited.                                                             *)
C8_ErrorPropagation ==
  /\ ~call.ok => /\ trace # <<>>
                 /\ trace[Len(trace)].ev = "raise"
  /\ \A i \in DOMAIN trace :
       trace[i].ev = "raise" =>
         /\ i = Len(trace)
         /\ ~call.ok /\ call.err = trace[i].err /\ call.at = trace[i].n

C8_Witness ==
  /\ call.root = 29 /\ ~call.ok /\ call.err = "NotImplementedError" /\ call.at = 15
  /\ Events("visit", 4) # {} /\ Events("visit", 5) = {}

(* the nodes whose evaluation was under way when the call ended *)
Unfinished(tr) ==
  {tr[i].n : i \in {i \in DOMAIN tr : tr[i].ev = "visit"
                      /\ ~\E j \in DOMAIN tr : j > i /\ tr[j].ev = "out"
                                               /\ tr[j].n = tr[i].n /\ tr[j].d = tr[i].d}}

LastRet(tr, n) ==
  LET S == {i \in DOMAIN tr : tr[i].ev = "ret" /\ tr[i].n = n}
  IN CHOOSE i \in S : \A k \in S : k <= i

(* C9: a top-level call changes the caller's memo only by storing, for     *)
(* each node whose handler returned, the value it returned (which evaluate *)
(* then hands back); a call with memo=None leaves it alone; after a failed *)
(* call the failing node and the nodes on its path to the root have no     *)
(* entry, while the nodes completed before the failure keep theirs.        *)
C9_MemoStep ==
  ncalls' = ncalls + 1 =>
    /\ call'.fresh => memo' = memo
    /\ \A k \in DOMAIN memo' : k[1] = "obj" /\ k[2] \in NodeIds
    /\ ~call'.fresh =>
         \A n \in NodeIds :
           IF \E i \in DOMAIN trace' : trace'[i].ev = "ret" /\ trace'[i].n = n
           THEN LET i == LastRet(trace', n)
                IN /\ ObjKey(n) \in DOMAIN memo'
                   /\ memo'[ObjKey(n)] = trace'[i].val
                   /\ trace'[i + 1] = Event("out", n, trace'[i].val, "", trace'[i].d)
           ELSE /\ ObjKey(n) \in DOMAIN memo' <=> ObjKey(n) \in DOMAIN memo
                /\ ObjKey(n) \in DOMAIN memo => memo'[ObjKey(n)] = memo[ObjKey(n)]
    /\ ~call'.ok =>
         /\ call'.at \in Unfinished(trace')
         /\ \A n \in Unfinished(trace') : ObjKey(n) \notin DOMAIN memo'

C9_MemoContents == [][C9_MemoStep]_vars

C9_Witness ==
  /\ call.root = 22 /\ ~call.fresh /\ ~call.ok /\ call.at = 15
  /\ {ObjKey(4), ObjKey(1), ObjKey(2), ObjKey(12)} \subseteq DOMAIN memo
  /\ memo[ObjKey(4)] = Num(1, 1) /\ memo[ObjKey(1)] = Ref(1)
  /\ memo[ObjKey(12)] = Num(4, 1)
  /\ ObjKey(15) \notin DOMAIN memo /\ ObjKey(22) \notin DOMAIN memo

----------------------------------------------------------------------------
(* Reading the history of calls on the SklearnClassifier *)

LastCall == history[Len(history)]

Mismatch(h) == h.y # NoTask /\ h.x.semantics # h.y.semantics

(* C7: best_model with a valid task of another semantics tag fails on the  *)
(* assertion before any best_model_<semantics> handler is entered: no      *)
(* model is created and the results are unchanged.  Otherwise the call     *)
(* goes to the handler named by train.semantics, and to no other.          *)
C7_Step ==
  (Len(history') = Len(history) + 1 /\ history'[Len(history')].op = "best_model") =>
    LET h == history'[Len(history')]
        name == "best_model_" \o h.x.semantics
    IN IF Mismatch(h)
       THEN /\ ~h.ok /\ h.err = "AssertionError" /\ h.handler = ""
            /\ models' = models
            /\ results_best_model' = results_best_model
            /\ results_loss' = results_loss
       ELSE IF name \in SklearnMethods
            THEN h.handler = name /\ Len(models') = Len(models) + 1
            ELSE ~h.ok /\ h.err = "AttributeError" /\ h.handler = "" /\ models' = models

C7_BestModelPrecondition == [][C7_Step]_vars

C7_Witness ==
  /\ Len(history) = 2
  /\ LastCall.op = "best_model" /\ Mismatch(LastCall)
  /\ ~LastCall.ok /\ LastCall.err = "AssertionError"
  /\ Len(results_best_model) = 1 /\ Len(models) = 1

Completed(op) == SelectSeq(history, LAMBDA h : h.op = op /\ h.ok)

IsPrefix(s, t) == Len(s) <= Len(t) /\ SubSeq(t, 1, Len(s)) = s

(* C10: results['best_model'] holds one record per completed best_model    *)
(* call and results['loss'] one per completed loss call, in call order;    *)
(* failed calls and forget_task add nothing, and no call removes or        *)
(* reorders records or writes to the other list.                           *)
C10_ResultsInv ==
  LET bm == Completed("best_model")
      ls == Completed("loss")
  IN /\ Len(results_best_model) = Len(bm)
     /\ \A k \in 1..Len(bm) :
          results_best_model[k] =
            [train_name |-> bm[k].x.name,
             valid_name |-> IF bm[k].y = NoTask THEN "None" ELSE bm[k].y.name,
             model |-> bm[k].ret.n]
     /\ Len(results_loss) = Len(ls)
     /\ \A k \in 1..Len(ls) :
          /\ results_loss[k].task_name = ls[k].x.name
          /\ results_loss[k].err_rate = ls[k].ret
          /\ results_loss[k].model_trained_on = models[ls[k].model].trained_on

C10_ResultsStep ==
  Len(history') = Len(history) + 1 =>
    LET h == history'[Len(history')]
    IN /\ IsPrefix(results_best_model, results_best_model')
       /\ IsPrefix(results_loss, results_loss')
       /\ Len(results_best_model') =
            Len(results_best_model) + (IF h.op = "best_model" /\ h.ok THEN 1 ELSE 0)
       /\ Len(results_loss') = Len(results_loss) + (IF h.op = "loss" /\ h.ok THEN 1 ELSE 0)

====
